---------------------------- MODULE Spec2Model ----------------------------
(***************************************************************************)
(* Model of the rnr task runner (src/src/runner.rs, src/src/config.rs).    *)
(*                                                                         *)
(* A run resolves one requested task name against the task document found  *)
(* at the project root and executes it: shell commands, delegations to     *)
(* other tasks (possibly in a nested rnr.yaml), sequential step lists and   *)
(* parallel step groups run on scoped threads.                              *)
(***************************************************************************)
EXTENDS Integers, Sequences, FiniteSets, TLC

(***************************************************************************)
(* Bounds of the model.                                                    *)
(***************************************************************************)
\* Largest number of sibling steps in a generated Parallel group.
MaxPar == 3
\* Largest non-zero exit code a child process returns.
MaxExitCode == 2
\* Largest call depth (frames on one thread's stack) the model follows.
MaxDepth == 4

(***************************************************************************)
(* Option<T>: None is the empty sequence, Some(x) the one-element one.     *)
(***************************************************************************)
None == << >>
Some(x) == << x >>
IsSome(o) == o # None
Unwrap(o) == o[1]

(***************************************************************************)
(* Paths are sequences of components; PathBuf::join of a relative path.    *)
(***************************************************************************)
CONFIG_FILE == "rnr.yaml"
Join(base, rel) == base \o rel
ProjectRoot == << >>
Sub == << "sub" >>
Lib == << "lib" >>

(***************************************************************************)
(* HashMap<String, String>: a set of <<key, value>> pairs, keys unique.    *)
(* Overlay(base, over) is Command::envs(over) applied to a process that    *)
(* inherits base: entries of over win on key collision.                    *)
(***************************************************************************)
EmptyEnv == {}
Keys(env) == { p[1] : p \in env }
Overlay(base, over) == over \cup { p \in base : p[1] \notin Keys(over) }
HostEnv == { << "PATH", "host" >>, << "K", "host" >> }
MainEnv == { << "K", "main" >>, << "M", "main" >> }
TargetEnv == { << "K", "target" >>, << "T", "target" >> }

(***************************************************************************)
(* config.rs data model: TaskDef, Task, Step, StepDef.                     *)
(***************************************************************************)
Shorthand(c) == [kind |-> "Shorthand", cmd |-> c]
Full(d, e, c, t, s) ==
    [kind |-> "Full", dir |-> d, env |-> e, cmd |-> c, task |-> t, steps |-> s]
StepDef(d, c, t) == [dir |-> d, cmd |-> c, task |-> t]
Simple(sd) == [kind |-> "Simple", def |-> sd]
Parallel(sds) == [kind |-> "Parallel", parallel |-> sds]


(***************************************************************************)
(* The task documents the runs are checked on.  The top-level document     *)
(* holds the requested task `main` (drawn from Mains) and a small library   *)
(* of delegation targets; a second document may exist at sub/rnr.yaml.      *)
(***************************************************************************)
\* Sibling j of a generated Parallel group.
SiblingA(j) ==
    CASE j % 4 = 1 -> StepDef(None, Some("echo p1"), None)
      [] j % 4 = 2 -> StepDef(None, Some("echo p2"), None)
      [] j % 4 = 3 -> StepDef(None, None, Some("sh"))
      [] OTHER     -> StepDef(Some(Sub), Some("echo p4"), None)
SiblingB(j) ==
    CASE j % 4 = 1 -> StepDef(None, None, None)
      [] j % 4 = 2 -> StepDef(None, Some("echo q2"), None)
      [] j % 4 = 3 -> StepDef(None, None, Some("missing"))
      [] OTHER     -> StepDef(None, Some("echo q4"), Some("none"))
GroupA(n) == [j \in 1..n |-> SiblingA(j)]
GroupB(n) == [j \in 1..n |-> SiblingB(j)]

StepA == Simple(StepDef(None, Some("echo 1"), None))
StepB == Simple(StepDef(None, Some("echo 2"), None))
StepDirCmd == Simple(StepDef(Some(Sub), Some("echo d"), None))
StepTask == Simple(StepDef(None, None, Some("fullde")))
StepDirTask == Simple(StepDef(Some(Sub), None, Some("sh")))
StepBoth == Simple(StepDef(None, Some("echo both"), Some("sh")))
StepNone == Simple(StepDef(None, None, None))
StepMissing == Simple(StepDef(None, None, Some("missing")))
StepDirNested == Simple(StepDef(Some(Sub), None, Some("nsteps")))
NestedStepDir == Simple(StepDef(Some(Lib), Some("echo nested d"), None))

\* Step lists that run a Parallel group between two commands.
FailingParallelLists == { << Parallel(GroupB(MaxPar)), StepB >> }
ParallelLists ==
    { << StepA, Parallel(GroupA(n)), StepB >> : n \in 0..MaxPar }
        \cup FailingParallelLists
\* Step lists of Simple steps only.
SimpleLists ==
    { << >>,
      << StepA, StepB >>,
      << StepDirCmd, StepDirTask, StepTask >>,
      << StepBoth, StepNone, StepB >>,
      << StepMissing, StepB >>,
      << StepDirNested >> }

MainCmd == "echo main"
\* The Full tasks `main` is drawn from: without steps, with a list of Simple
\* steps, and with a list that holds a Parallel group.
Mains ==
    { Full(d, e, c, t, None) :
        d \in {None, Some(Sub)}, e \in {None, Some(MainEnv)},
        c \in {None, Some(MainCmd)},
        t \in {None, Some("sh"), Some("full"), Some("fullde"), Some("none"),
               Some("missing")} }
    \cup
    { Full(d, e, x[1], x[2], Some(l)) :
        d \in {None, Some(Sub)}, e \in {None, Some(MainEnv)},
        x \in { <<None, None>>, <<Some(MainCmd), Some("full")>> },
        l \in SimpleLists }
PlainParallelMains ==
    { Full(None, None, None, None, Some(l)) : l \in ParallelLists }
\* A Parallel group with a sibling that delegates to the task `inner`.
OuterGroup == << StepDef(None, Some("echo p1"), None), StepDef(None, None, Some("inner")) >>
NestedParallelMains ==
    { Full(None, None, None, None, Some(<< Parallel(OuterGroup) >>)) }
ScopedParallelMains ==
    { Full(Some(Sub), Some(MainEnv), Some(MainCmd), Some("full"), Some(l)) :
        l \in FailingParallelLists }

\* A task whose only step is a Parallel group that always fails, and tasks
\* that delegate to themselves: directly, and through another task.
InnerGroup == << StepDef(None, Some("echo i1"), None), StepDef(None, None, None) >>
TopLibrary ==
    [n \in {"sh", "full", "fullde", "none", "inner", "self", "ping", "pong"} |->
        CASE n = "sh" -> Shorthand("echo sh")
          [] n = "inner" -> Full(None, None, None, None, Some(<< Parallel(InnerGroup) >>))
          [] n = "self" -> Full(None, None, None, Some("self"), None)
          [] n = "ping" -> Full(None, None, Some("echo ping"), Some("pong"), None)
          [] n = "pong" -> Full(None, None, None, Some("ping"), None)
          [] n = "full" -> Full(None, None, Some("echo full"), None, None)
          [] n = "fullde" ->
                Full(Some(Lib), Some(TargetEnv), Some("echo fullde"), None, None)
          [] OTHER -> Full(None, None, None, None, None)]
NestedDocument ==
    [n \in {"sh", "full", "fullde", "nsteps"} |->
        CASE n = "sh" -> Shorthand("echo nested sh")
          [] n = "full" -> Full(None, None, Some("echo nested full"), None, None)
          [] n = "nsteps" ->
                Full(None, None, None, None, Some(<< NestedStepDir, StepB >>))
          [] OTHER ->
                Full(Some(Lib), Some(TargetEnv), Some("echo nested fullde"),
                     None, None)]
TopDocument(main) ==
    [n \in DOMAIN TopLibrary \cup {"main"} |->
        IF n = "main" THEN main ELSE TopLibrary[n]]

\* A file of the file system: absent, a readable task document, or a file
\* that exists and cannot be read or parsed.
Absent == [state |-> "absent"]
Corrupt == [state |-> "bad"]
File(tasks) == [state |-> "ok", tasks |-> tasks]
ConfigPath(dir) == Join(dir, << CONFIG_FILE >>)
ConfigPaths == { ConfigPath(ProjectRoot), ConfigPath(Sub), ConfigPath(Lib) }
\* The projects a run starts in: the task `main` and the file at sub/rnr.yaml.
Projects ==
    (Mains \X { Absent, File(NestedDocument), Corrupt })
        \cup (PlainParallelMains \X { Absent })
        \cup (NestedParallelMains \X { Absent })
        \cup (ScopedParallelMains \X { File(NestedDocument) })

(***************************************************************************)
(* State.                                                                  *)
(*   requested   the task name given on the command line                   *)
(*   fs          the file system: config path -> file                      *)
(*   threads     live threads: id -> [ctl, stack, parent]; the main thread *)
(*               is Main, a worker's id is the position of its step        *)
(*   invocations child processes started by execute_command                *)
(*   started     [path, step] of step-list entries and siblings entered    *)
(*   finished    [path, step, res] of those that returned                  *)
(*   document    the task names of a loaded Config (config.rs)             *)
(*   listings    the listings task_names has returned for it               *)
(*   platforms   RnrConfig::platforms of a config in memory                *)
(*   call        the last method called on that RnrConfig                  *)
(*   config_yaml .rnr/config.yaml: None, or Some(its platforms list)       *)
(*   bin         the files of .rnr/bin                                     *)
(*   command     the last `init` command and its result                    *)
(***************************************************************************)
VARIABLES requested, fs, threads, invocations, started, finished,
          document, listings, platforms, call, config_yaml, bin, command
vars == << requested, fs, threads, invocations, started, finished,
           document, listings, platforms, call, config_yaml, bin, command >>
\* The state of a run of a task, and the state the other commands work on.
run_vars == << requested, fs, threads, invocations, started, finished >>
list_vars == << document, listings >>
config_vars == << platforms, call >>
init_vars == << config_yaml, bin, command >>
\* A run of a task lists no names and touches no .rnr directory.
OthersIdle == UNCHANGED << list_vars, config_vars, init_vars >>
RunIdle == UNCHANGED run_vars

Main == << >>

\* anyhow::Result<()>
Ok == [ok |-> TRUE]
Err(e) == [ok |-> FALSE, err |-> e]
TaskNotFound(name, path) == [kind |-> "TaskNotFound", name |-> name, path |-> path]
DocumentLoadFailed(path) == [kind |-> "DocumentLoadFailed", path |-> path]
NoAction(of) == [kind |-> "NoAction", of |-> of]
SpawnFailed(cmd) == [kind |-> "SpawnFailed", cmd |-> cmd]
CommandFailed(code) == [kind |-> "CommandFailed", code |-> code]
ParallelFailure(errors) ==
    [kind |-> "ParallelFailure", count |-> Len(errors), messages |-> errors]

\* Path::exists and Config::get_task on a loaded document.
Exists(path) == path \in DOMAIN fs /\ fs[path].state # "absent"
GetTask(doc, name) ==
    IF name \in DOMAIN fs[doc].tasks THEN Some(fs[doc].tasks[name]) ELSE None

\* Position of the step a thread is executing: the thread's own position
\* followed by the index of every step list it is inside.
Top(stack) == stack[Len(stack)]
Pop(stack) == SubSeq(stack, 1, Len(stack) - 1)
PathOf(t) ==
    LET loops == SelectSeq(threads[t].stack, LAMBDA f : f.k = "steps")
    IN  t \o [i \in 1..Len(loops) |-> << "s", loops[i].idx >>]

\* Control states of a thread: the call it is about to make or is inside.
CallRunTask(name) == [op |-> "run_task", name |-> name]
CallTaskDef(def, root, doc) ==
    [op |-> "task_def", def |-> def, root |-> root, doc |-> doc]
CallFullTask(task, root, doc) ==
    [op |-> "full_task", task |-> task, root |-> root, doc |-> doc]
CallStepDef(sd, dir, env, doc) ==
    [op |-> "step_def", sd |-> sd, dir |-> dir, env |-> env, doc |-> doc]
CallCommand(cmd, dir, env, by) ==
    [op |-> "command", cmd |-> cmd, dir |-> dir, env |-> env, by |-> by]
Running(cmd, dir, env, by) ==
    [op |-> "running", cmd |-> cmd, dir |-> dir, env |-> env, by |-> by]
Loop == [op |-> "loop"]
Scope == [op |-> "scope"]
Return(res) == [op |-> "ret", res |-> res]
Locking(e) == [op |-> "lock", err |-> e]
Locked(e, vec) == [op |-> "locked", err |-> e, vec |-> vec]
Joinable == [op |-> "done"]

\* Activation records that stay on the stack while a callee runs.
StepsFrame(steps, work_dir, env, root, doc) ==
    [k |-> "steps", steps |-> steps, idx |-> 1, work_dir |-> work_dir,
     env |-> env, root |-> root, doc |-> doc]
DelegFrame(by, dir, target, work_dir, env, root, doc, nested) ==
    [k |-> "deleg", by |-> by, dir |-> dir, target |-> target,
     work_dir |-> work_dir, env |-> env, root |-> root, doc |-> doc,
     nested |-> nested]
ParallelFrame(steps, dir, env, doc) ==
    [k |-> "parallel", steps |-> steps, dir |-> dir, env |-> env, doc |-> doc,
     spawned |-> 0, errors |-> << >>, holder |-> None]

Set(t, ctl, stack) ==
    threads' = [threads EXCEPT ![t] = [@ EXCEPT !.ctl = ctl, !.stack = stack]]
Ctl(t) == threads[t].ctl
Stack(t) == threads[t].stack

\* The parts of the state a command does not work on.
NoListing == document = {} /\ listings = << >>
NoRnrConfig == platforms = << >> /\ call = << >>
NoInitCommand == config_yaml = << >> /\ bin = {} /\ command = << >>

\* The start of run_task in one of the given projects.
StartIn(projects) ==
    /\ NoListing /\ NoRnrConfig /\ NoInitCommand
    /\ \E project \in projects :
          fs = [p \in ConfigPaths |->
                  CASE p = ConfigPath(ProjectRoot) -> File(TopDocument(project[1]))
                    [] p = ConfigPath(Sub) -> project[2]
                    [] OTHER -> Absent]
    /\ requested \in {"main", "sh", "missing", "self", "ping"}
    /\ threads = [t \in {Main} |->
                    [ctl |-> CallRunTask(requested), stack |-> << >>,
                     parent |-> Main, step |-> None]]
    /\ invocations = {}
    /\ started = {}
    /\ finished = {}
Init == StartIn(Projects)

(***************************************************************************)
(* runner.rs: the decisions of execute_full_task and execute_step_def.     *)
(***************************************************************************)
\* execute_full_task: `work_dir` (runner.rs 30-33) and `env` (35).
TaskWorkDir(task, project_root) ==
    IF IsSome(task.dir) THEN Join(project_root, Unwrap(task.dir)) ELSE project_root
TaskEnv(task) == IF IsSome(task.env) THEN Unwrap(task.env) ELSE EmptyEnv
\* execute_step_def: `work_dir` (134-140); a step's dir is joined to
\* crate::config::project_root(), the root found from the current directory.
StepWorkDir(sd, default_dir) ==
    IF IsSome(sd.dir) THEN Join(ProjectRoot, Unwrap(sd.dir)) ELSE default_dir

\* Faulty precedence: a task's own command before its steps and delegation.
CmdFirst(task) ==
    IF IsSome(task.cmd) THEN "cmd"
    ELSE IF IsSome(task.steps) THEN "steps"
    ELSE IF IsSome(task.task) THEN "task"
    ELSE "none"
\* Faulty precedence: a task's own command before its delegation.
TaskLast(task) ==
    IF IsSome(task.steps) THEN "steps"
    ELSE IF IsSome(task.cmd) THEN "cmd"
    ELSE IF IsSome(task.task) THEN "task"
    ELSE "none"
\* Which branch execute_full_task takes (38, 46, 71, 75).
FullTaskAction(task) ==
    IF IsSome(task.steps) THEN "steps"
    ELSE IF IsSome(task.task) THEN "task"
    ELSE IF IsSome(task.cmd) THEN "cmd"
    ELSE "none"
\* Which branch execute_step_def takes (143, 168, 172).
StepAction(sd) ==
    IF IsSome(sd.task) THEN "task"
    ELSE IF IsSome(sd.cmd) THEN "cmd"
    ELSE "none"

\* Faulty probe: a file that cannot be loaded counts as not being there.
UsesReadableNested(dir, work_dir) ==
    /\ IsSome(dir)
    /\ ConfigPath(work_dir) \in DOMAIN fs
    /\ fs[ConfigPath(work_dir)].state = "ok"
\* Whether a delegation with this `dir` probes and finds a nested rnr.yaml
\* (48-50, 145-147).
UsesNested(dir, work_dir) == IsSome(dir) /\ Exists(ConfigPath(work_dir))
\* Faulty re-rooting: the root of the delegating document is kept.
OuterRoot(work_dir, project_root) == project_root
\* The project root handed to a task found in a nested document (59, 156).
NestedRoot(work_dir, project_root) == work_dir

\* Config::load_from (80-89): reading or parsing the file may fail.
LoadFrom(path) ==
    IF fs[path].state = "ok" THEN Ok ELSE Err(DocumentLoadFailed(path))

\* Faulty lookup: a name the nested document lacks is looked up in the
\* current document instead.
ResolveWithFallback(dir, work_dir, name, same_root, doc) ==
    LET nested == ConfigPath(work_dir)
        inner == IF UsesNested(dir, work_dir) /\ LoadFrom(nested).ok
                 THEN GetTask(nested, name) ELSE None
        outer == GetTask(doc, name)
    IN  IF UsesNested(dir, work_dir) /\ ~LoadFrom(nested).ok
        THEN [ok |-> FALSE, err |-> LoadFrom(nested).err]
        ELSE IF inner # None
        THEN [ok |-> TRUE, def |-> Unwrap(inner),
              root |-> NestedRoot(work_dir, same_root), doc |-> nested,
              nested |-> TRUE]
        ELSE IF outer # None
        THEN [ok |-> TRUE, def |-> Unwrap(outer), root |-> same_root,
              doc |-> doc, nested |-> FALSE]
        ELSE [ok |-> FALSE, err |-> TaskNotFound(name, None)]
\* The target of a delegation: the task definition and the root and document
\* it runs with, or the lookup error (48-67, 145-164).  same_root is the root
\* passed on when the current document is used.
Resolve(dir, work_dir, name, same_root, doc) ==
    IF UsesNested(dir, work_dir)
    THEN LET nested == ConfigPath(work_dir)
             found == GetTask(nested, name)
         IN  IF ~LoadFrom(nested).ok
             THEN [ok |-> FALSE, err |-> LoadFrom(nested).err]
             ELSE IF found = None
             THEN [ok |-> FALSE, err |-> TaskNotFound(name, Some(nested))]
             ELSE [ok |-> TRUE, def |-> Unwrap(found),
                   root |-> NestedRoot(work_dir, same_root), doc |-> nested,
                   nested |-> TRUE]
    ELSE LET found == GetTask(doc, name)
         IN  IF found = None
             THEN [ok |-> FALSE, err |-> TaskNotFound(name, None)]
             ELSE [ok |-> TRUE, def |-> Unwrap(found), root |-> same_root,
                   doc |-> doc, nested |-> FALSE]

\* execute_command: the exit statuses a child can end with, and the result
\* each maps to (196-201).  None is a status without an exit code.
ExitStatuses == { Some(c) : c \in 0..MaxExitCode } \cup { None }
\* Faulty mapping: a child that ended without an exit code counts as success.
SignalIsSuccess(status) ==
    IF IsSome(status) /\ Unwrap(status) # 0
    THEN Err(CommandFailed(Unwrap(status))) ELSE Ok
StatusResult(status) ==
    IF status = Some(0) THEN Ok
    ELSE Err(CommandFailed(IF IsSome(status) THEN Unwrap(status) ELSE 1))

\* Faulty `?`: a failed entry is ignored.
NeverPropagates(res) == FALSE
\* Faulty `?`: the failure of a command is recovered from locally.
RecoversCommandFailure(res) == ~res.ok /\ res.err.kind # "CommandFailed"
\* The `?` on execute_step's result (40): an error leaves the function.
Propagates(res) == ~res.ok
\* Faulty fall-through: success for a task or step without an action.
SilentOk(of) == Ok
\* anyhow::bail! of a task or step without an action (75, 172).
Bail(of) == Err(NoAction(of))

\* execute_parallel: Vec::push under the mutex (107) and the result (113-124).
\* Faulty push: the newest error goes to the front of the vector.
PushFront(errors, e) == << e >> \o errors
PushError(errors, e) == Append(errors, e)
\* Faulty lock: no mutual exclusion.
MutexIgnored(frame) == TRUE
MutexFree(frame) == frame.holder = None
\* Faulty aggregate: the entries of a failed inner group are listed in
\* place of the inner group's one error.
RECURSIVE Flatten(_)
Flatten(errors) ==
    IF errors = << >> THEN << >>
    ELSE (IF Head(errors).kind = "ParallelFailure"
          THEN Head(errors).messages ELSE << Head(errors) >>)
             \o Flatten(Tail(errors))
FlattenedResult(errors) ==
    IF errors = << >> THEN Ok ELSE Err(ParallelFailure(Flatten(errors)))
ParallelResult(errors) ==
    IF errors = << >> THEN Ok ELSE Err(ParallelFailure(errors))
\* thread::scope returns when every spawned thread has finished (103-111).
Workers(t) == { w \in DOMAIN threads : w # Main /\ threads[w].parent = t }
\* Faulty joins: one that does not wait for the workers, one that stops
\* waiting at the first recorded error.
JoinWithoutWaiting(t) == TRUE
JoinOnFirstError(t) ==
    \/ \A w \in Workers(t) : Ctl(w) = Joinable
    \/ Top(Stack(t)).errors # << >>
\* Faulty scope: it never returns.
NeverJoined(t) == FALSE
AllJoined(t) == \A w \in Workers(t) : Ctl(w) = Joinable

\* `config: &Config` (21, 29, 83, 96, 132): the documents are borrowed shared
\* and no call writes them.
\* Faulty borrow: the tasks of the documents are taken out when used.
ConfigConsumed ==
    fs' = [p \in DOMAIN fs |->
             IF fs[p].state = "ok" /\ Ctl(Main).op = "full_task"
             THEN File([n \in {} |-> None]) ELSE fs[p]]
SharedConfig == fs' = fs

(***************************************************************************)
(* Actions.                                                                *)
(***************************************************************************)
\* run_task (9-18).
RunTask(t) ==
    /\ Ctl(t).op = "run_task"
    /\ LET doc == ConfigPath(ProjectRoot)
           found == GetTask(doc, Ctl(t).name)
       IN  IF found = None
           THEN Set(t, Return(Err(TaskNotFound(Ctl(t).name, None))), Stack(t))
           ELSE Set(t, CallTaskDef(Unwrap(found), ProjectRoot, doc), Stack(t))
    /\ SharedConfig /\ OthersIdle /\ UNCHANGED << requested, invocations, started, finished >>

\* execute_task_def (21-26).
ExecuteTaskDef(t) ==
    /\ Ctl(t).op = "task_def"
    /\ LET c == Ctl(t)
       IN  IF c.def.kind = "Shorthand"
           THEN Set(t, CallCommand(c.def.cmd, c.root, EmptyEnv, "shorthand"), Stack(t))
           ELSE Set(t, CallFullTask(c.def, c.root, c.doc), Stack(t))
    /\ SharedConfig /\ OthersIdle /\ UNCHANGED << requested, invocations, started, finished >>

\* execute_full_task (29-76) up to the call it makes.
ExecuteFullTask(t) ==
    /\ Ctl(t).op = "full_task"
    /\ LET c == Ctl(t)
           task == c.task
           work_dir == TaskWorkDir(task, c.root)
           env == TaskEnv(task)
           action == FullTaskAction(task)
       IN  CASE action = "steps" ->
                  Set(t, Loop,
                      Append(Stack(t),
                             StepsFrame(Unwrap(task.steps), work_dir, env, c.root, c.doc)))
             [] action = "task" ->
                  LET r == Resolve(task.dir, work_dir, Unwrap(task.task), c.root, c.doc)
                  IN  IF r.ok
                      THEN /\ Len(Stack(t)) < MaxDepth
                           /\ Set(t, CallTaskDef(r.def, r.root, r.doc),
                                  Append(Stack(t),
                                         DelegFrame("task", task.dir, Unwrap(task.task),
                                                    work_dir, env, c.root, c.doc,
                                                    r.nested)))
                      ELSE Set(t, Return(Err(r.err)), Stack(t))
             [] action = "cmd" ->
                  Set(t, CallCommand(Unwrap(task.cmd), work_dir, env, "task"), Stack(t))
             [] OTHER -> Set(t, Return(Bail("task")), Stack(t))
    /\ SharedConfig /\ OthersIdle /\ UNCHANGED << requested, invocations, started, finished >>

\* The `for step in steps` loop of execute_full_task (39-42) with execute_step
\* (79-89): enter the next entry, or return Ok after the last one.
NextStep(t) ==
    /\ Ctl(t).op = "loop"
    /\ LET f == Top(Stack(t))
       IN  IF f.idx > Len(f.steps)
           THEN /\ Set(t, Return(Ok), Pop(Stack(t)))
                /\ UNCHANGED started
           ELSE LET step == f.steps[f.idx]
                IN  /\ started' = started \cup { [path |-> PathOf(t), step |-> step] }
                    /\ IF step.kind = "Simple"
                       THEN Set(t, CallStepDef(step.def, f.work_dir, f.env, f.doc),
                                Stack(t))
                       ELSE Set(t, Scope,
                                Append(Stack(t),
                                       ParallelFrame(step.parallel, f.work_dir, f.env,
                                                     f.doc)))
    /\ SharedConfig /\ OthersIdle /\ UNCHANGED << requested, invocations, finished >>

\* `execute_step(...)?` returns into the loop (40): an error leaves the loop
\* and the function, success moves to the next entry.
StepReturn(t) ==
    /\ Ctl(t).op = "ret"
    /\ Stack(t) # << >>
    /\ Top(Stack(t)).k = "steps"
    /\ finished' = finished \cup
          { [path |-> PathOf(t), step |-> Top(Stack(t)).steps[Top(Stack(t)).idx],
             res |-> Ctl(t).res] }
    /\ IF Propagates(Ctl(t).res)
       THEN Set(t, Return(Ctl(t).res), Pop(Stack(t)))
       ELSE Set(t, Loop, [Stack(t) EXCEPT ![Len(Stack(t))].idx = @ + 1])
    /\ SharedConfig /\ OthersIdle /\ UNCHANGED << requested, invocations, started >>

\* `return execute_task_def(...)` (59, 67, 156, 164): the callee's result is
\* the caller's.
DelegationReturn(t) ==
    /\ Ctl(t).op = "ret"
    /\ Stack(t) # << >>
    /\ Top(Stack(t)).k = "deleg"
    /\ Set(t, Return(Ctl(t).res), Pop(Stack(t)))
    /\ SharedConfig /\ OthersIdle /\ UNCHANGED << requested, invocations, started, finished >>

\* execute_step_def (128-173) up to the call it makes.
ExecuteStepDef(t) ==
    /\ Ctl(t).op = "step_def"
    /\ LET c == Ctl(t)
           sd == c.sd
           work_dir == StepWorkDir(sd, c.dir)
           action == StepAction(sd)
       IN  CASE action = "task" ->
                  LET r == Resolve(sd.dir, work_dir, Unwrap(sd.task), ProjectRoot, c.doc)
                  IN  IF r.ok
                      THEN /\ Len(Stack(t)) < MaxDepth
                           /\ Set(t, CallTaskDef(r.def, r.root, r.doc),
                                  Append(Stack(t),
                                         DelegFrame("step", sd.dir, Unwrap(sd.task),
                                                    work_dir, c.env, ProjectRoot, c.doc,
                                                    r.nested)))
                      ELSE Set(t, Return(Err(r.err)), Stack(t))
             [] action = "cmd" ->
                  Set(t, CallCommand(Unwrap(sd.cmd), work_dir, c.env, "step"), Stack(t))
             [] OTHER -> Set(t, Return(Bail("step")), Stack(t))
    /\ SharedConfig /\ OthersIdle /\ UNCHANGED << requested, invocations, started, finished >>

\* `for step_def in steps` (104): a step is left to spawn.  Nothing else
\* decides when the next worker is started.
\* Faulty fan-out: a pool of one, the next worker waits for the others.
PoolOfOne(t) ==
    /\ Top(Stack(t)).spawned < Len(Top(Stack(t)).steps)
    /\ \A w \in Workers(t) : Ctl(w) = Joinable
HasNext(t) == Top(Stack(t)).spawned < Len(Top(Stack(t)).steps)

\* execute_parallel (103-110): one iteration of the spawning loop.  The new
\* thread runs execute_step_def on its step with the group's dir and env.
Spawn(t) ==
    /\ Ctl(t).op = "scope"
    /\ LET f == Top(Stack(t))
           j == f.spawned + 1
           w == Append(PathOf(t), << "p", j >>)
       IN  /\ HasNext(t)
           /\ threads' =
                [x \in DOMAIN threads \cup {w} |->
                    IF x = w
                    THEN [ctl |-> CallStepDef(f.steps[j], f.dir, f.env, f.doc),
                          stack |-> << >>, parent |-> t, step |-> f.steps[j]]
                    ELSE IF x = t
                    THEN [threads[t] EXCEPT !.stack[Len(Stack(t))].spawned = j]
                    ELSE threads[x]]
           /\ started' = started \cup { [path |-> w, step |-> Simple(f.steps[j])] }
    /\ SharedConfig /\ OthersIdle /\ UNCHANGED << requested, invocations, finished >>

\* The worker closure (105-109): its step returned.
WorkerReturn(w) ==
    /\ w # Main
    /\ Ctl(w).op = "ret"
    /\ Stack(w) = << >>
    /\ finished' = finished \cup
          { [path |-> w, step |-> Simple(threads[w].step), res |-> Ctl(w).res] }
    /\ IF Ctl(w).res.ok
       THEN Set(w, Joinable, << >>)
       ELSE Set(w, Locking(Ctl(w).res.err), << >>)
    /\ SharedConfig /\ OthersIdle /\ UNCHANGED << requested, invocations, started >>

\* errors.lock() (107): blocks until the mutex is free; the guard gives
\* access to the vector.
WorkerLock(w) ==
    /\ Ctl(w).op = "lock"
    /\ LET t == threads[w].parent
           top == Len(Stack(t))
       IN  /\ MutexFree(Stack(t)[top])
           /\ threads' = [threads EXCEPT ![t].stack[top].holder = Some(w),
                                         ![w].ctl = Locked(Ctl(w).err, Stack(t)[top].errors)]
    /\ SharedConfig /\ OthersIdle /\ UNCHANGED << requested, invocations, started, finished >>

\* .push(e) and the drop of the guard (107); the closure ends.
WorkerPush(w) ==
    /\ Ctl(w).op = "locked"
    /\ LET t == threads[w].parent
           top == Len(Stack(t))
       IN  threads' = [threads EXCEPT
                         ![t].stack[top].errors = PushError(Ctl(w).vec, Ctl(w).err),
                         ![t].stack[top].holder = None,
                         ![w].ctl = Joinable]
    /\ SharedConfig /\ OthersIdle /\ UNCHANGED << requested, invocations, started, finished >>

\* The end of thread::scope and the result of execute_parallel (111-124).
ParallelJoin(t) ==
    /\ Ctl(t).op = "scope"
    /\ LET f == Top(Stack(t))
       IN  /\ f.spawned = Len(f.steps)
           /\ AllJoined(t)
           /\ threads' =
                [x \in DOMAIN threads \ Workers(t) |->
                    IF x = t
                    THEN [threads[t] EXCEPT !.ctl = Return(ParallelResult(f.errors)),
                                            !.stack = Pop(Stack(t))]
                    ELSE threads[x]]
    /\ SharedConfig /\ OthersIdle /\ UNCHANGED << requested, invocations, started, finished >>

\* execute_command (176-194): print the command line and start the child
\* with the given directory and the given variables added to the inherited
\* environment; the start itself may fail.
\* `exit` is None until the child has exited and then Some(its status).
Invocation(t, status, exit) ==
    [path |-> PathOf(t), cmd |-> Ctl(t).cmd, dir |-> Ctl(t).dir,
     envs |-> Ctl(t).env, env |-> Overlay(HostEnv, Ctl(t).env), by |-> Ctl(t).by,
     status |-> status, exit |-> exit]
ExecuteCommand(t) ==
    /\ Ctl(t).op = "command"
    /\ \/ /\ invocations' = invocations \cup { Invocation(t, "running", None) }
          /\ Set(t, Running(Ctl(t).cmd, Ctl(t).dir, Ctl(t).env, Ctl(t).by), Stack(t))
       \/ /\ invocations' = invocations \cup { Invocation(t, "spawn_failed", None) }
          /\ Set(t, Return(Err(SpawnFailed(Ctl(t).cmd))), Stack(t))
    /\ SharedConfig /\ OthersIdle /\ UNCHANGED << requested, started, finished >>

\* The child exits (192-201).
CommandExit(t) ==
    /\ Ctl(t).op = "running"
    /\ \E status \in ExitStatuses :
          /\ invocations' = (invocations \ { Invocation(t, "running", None) })
                                \cup { Invocation(t, "exited", Some(status)) }
          /\ Set(t, Return(StatusResult(status)), Stack(t))
    /\ SharedConfig /\ OthersIdle /\ UNCHANGED << requested, started, finished >>

Next ==
    \/ \E t \in DOMAIN threads : RunTask(t)
    \/ \E t \in DOMAIN threads : ExecuteTaskDef(t)
    \/ \E t \in DOMAIN threads : ExecuteFullTask(t)
    \/ \E t \in DOMAIN threads : NextStep(t)
    \/ \E t \in DOMAIN threads : StepReturn(t)
    \/ \E t \in DOMAIN threads : DelegationReturn(t)
    \/ \E t \in DOMAIN threads : ExecuteStepDef(t)
    \/ \E t \in DOMAIN threads : Spawn(t)
    \/ \E t \in DOMAIN threads : WorkerReturn(t)
    \/ \E t \in DOMAIN threads : WorkerLock(t)
    \/ \E t \in DOMAIN threads : WorkerPush(t)
    \/ \E t \in DOMAIN threads : ParallelJoin(t)
    \/ \E t \in DOMAIN threads : ExecuteCommand(t)
    \/ \E t \in DOMAIN threads : CommandExit(t)

Spec == Init /\ [][Next]_vars

\* Runs in which every thread that can take a step eventually takes one and
\* every command that runs eventually exits: the projects without a Parallel
\* group of MaxPar siblings.
LiveProjects ==
    (Mains \X { Absent, File(NestedDocument) })
        \cup (NestedParallelMains \X { Absent })
LiveInit == StartIn(LiveProjects)
LiveSpec == LiveInit /\ [][Next]_vars /\ WF_vars(Next)

\* run_task has returned.
Done == Ctl(Main).op = "ret" /\ Stack(Main) = << >>

\* No task is run.
NoRun ==
    /\ requested = "main"
    /\ fs = [p \in ConfigPaths |-> Absent]
    /\ threads = << >>
    /\ invocations = {} /\ started = {} /\ finished = {}

(***************************************************************************)
(* config.rs: Config::task_names.  A task name is a string, here the      *)
(* sequence of its bytes; `sort` on Vec<&str> orders by str::cmp, the      *)
(* lexicographic order of the bytes.                                       *)
(***************************************************************************)
\* The names documents are made of: "Z", "a", "aa", "ab", "b", "z".
NameUniverse == { << 90 >>, << 97 >>, << 97, 97 >>, << 97, 98 >>, << 98 >>, << 122 >> }
\* The most names in a document, and the most calls of task_names on it.
MaxNames == 3
MaxCalls == 3
Documents == { d \in SUBSET NameUniverse : Cardinality(d) <= MaxNames }

\* str::cmp(a, b) = Less.
RECURSIVE StrLess(_, _)
StrLess(a, b) ==
    IF a = << >> THEN b # << >>
    ELSE IF b = << >> THEN FALSE
    ELSE IF Head(a) # Head(b) THEN Head(a) < Head(b)
    ELSE StrLess(Tail(a), Tail(b))

\* HashMap::keys: every key once, in an order the map chooses.
KeyOrders(map) ==
    { order \in [1..Cardinality(map) -> map] :
        \A i, j \in 1..Cardinality(map) : i # j => order[i] # order[j] }

\* Faulty task_names: the keys as the map iterates them.
Unsorted(names) == names
\* slice::sort (a stable sort) on the collected names (98).
RECURSIVE InsertName(_, _)
InsertName(sorted, name) ==
    IF sorted = << >> THEN << name >>
    ELSE IF StrLess(name, Head(sorted)) THEN << name >> \o sorted
    ELSE << Head(sorted) >> \o InsertName(Tail(sorted), name)
RECURSIVE SortNames(_)
SortNames(names) ==
    IF names = << >> THEN << >>
    ELSE InsertName(SortNames(SubSeq(names, 1, Len(names) - 1)), names[Len(names)])

InitList ==
    /\ NoRun /\ NoRnrConfig /\ NoInitCommand
    /\ document \in Documents
    /\ listings = << >>

\* Config::task_names (96-100) called once more on the document.
TaskNames ==
    /\ Len(listings) < MaxCalls
    /\ \E names \in KeyOrders(document) :
          listings' = Append(listings, SortNames(names))
    /\ UNCHANGED document
    /\ RunIdle /\ UNCHANGED << config_vars, init_vars >>

NextList == TaskNames
SpecList == InitList /\ [][NextList]_vars

(***************************************************************************)
(* platform.rs and rnr_config.rs: Platform and RnrConfig.                  *)
(***************************************************************************)
ALL_PLATFORMS ==
    << "LinuxAmd64", "MacosAmd64", "MacosArm64", "WindowsAmd64", "WindowsArm64" >>
Platform == { ALL_PLATFORMS[i] : i \in 1..Len(ALL_PLATFORMS) }
\* Platform::id, Platform::binary_name and Platform::from_id.
Id(platform) ==
    CASE platform = "LinuxAmd64" -> "linux-amd64"
      [] platform = "MacosAmd64" -> "macos-amd64"
      [] platform = "MacosArm64" -> "macos-arm64"
      [] platform = "WindowsAmd64" -> "windows-amd64"
      [] platform = "WindowsArm64" -> "windows-arm64"
BinaryName(platform) ==
    CASE platform = "LinuxAmd64" -> "rnr-linux-amd64"
      [] platform = "MacosAmd64" -> "rnr-macos-amd64"
      [] platform = "MacosArm64" -> "rnr-macos-arm64"
      [] platform = "WindowsAmd64" -> "rnr-windows-amd64.exe"
      [] platform = "WindowsArm64" -> "rnr-windows-arm64.exe"
FromId(id) ==
    IF \E q \in Platform : Id(q) = id
    THEN Some(CHOOSE q \in Platform : Id(q) = id) ELSE None

\* The identifiers a platforms list or a command line may hold: the five
\* known ones and one no platform has, in the order of str::cmp.
UnknownId == "freebsd-amd64"
IdsAscending ==
    << UnknownId, "linux-amd64", "macos-amd64", "macos-arm64", "windows-amd64",
       "windows-arm64" >>
Ids == { IdsAscending[i] : i \in 1..Len(IdsAscending) }
IdLess(a, b) ==
    \E i, j \in 1..Len(IdsAscending) :
        i < j /\ IdsAscending[i] = a /\ IdsAscending[j] = b
\* self.platforms.sort() (83).
RECURSIVE InsertId(_, _)
InsertId(sorted, id) ==
    IF sorted = << >> THEN << id >>
    ELSE IF IdLess(id, Head(sorted)) THEN << id >> \o sorted
    ELSE << Head(sorted) >> \o InsertId(Tail(sorted), id)
RECURSIVE SortIds(_)
SortIds(ids) ==
    IF ids = << >> THEN << >>
    ELSE InsertId(SortIds(SubSeq(ids, 1, Len(ids) - 1)), ids[Len(ids)])

\* RnrConfig::new (28-33): the ids of the given platforms, as given.
New(list) == [i \in 1..Len(list) |-> Id(list[i])]
\* RnrConfig::has_platform (94-96).
HasPlatform(list, platform) == \E i \in 1..Len(list) : list[i] = Id(platform)
\* RnrConfig::get_platforms (71-76): the entries that name a platform.
GetPlatforms(list) ==
    LET known == SelectSeq(list, LAMBDA id : FromId(id) # None)
    IN  [i \in 1..Len(known) |-> Unwrap(FromId(known[i]))]
\* RnrConfig::add_platform (79-85).
AddPlatform(list, platform) ==
    IF ~HasPlatform(list, platform)
    THEN SortIds(Append(list, Id(platform)))
    ELSE list
\* Faulty remove: only the first entry of the platform is dropped.
RECURSIVE RemoveFirst(_, _)
RemoveFirst(list, platform) ==
    IF list = << >> THEN << >>
    ELSE IF Head(list) = Id(platform) THEN Tail(list)
    ELSE << Head(list) >> \o RemoveFirst(Tail(list), platform)
\* RnrConfig::remove_platform (88-91): retain the other entries.
RemovePlatform(list, platform) == SelectSeq(list, LAMBDA id : id # Id(platform))

\* The longest platforms list a config starts with.
MaxListed == 2
\* Sequences over S of length at most n.
SeqsUpTo(S, n) == UNION { [1..k -> S] : k \in 0..n }

\* A config made by RnrConfig::new or read by load_from (42-48): any list
\* of identifiers, repeated and unknown ones included.
InitConfig ==
    /\ NoRun /\ NoListing /\ NoInitCommand
    /\ platforms \in SeqsUpTo(Ids, MaxListed)
    /\ call = << >>

CallAddPlatform(platform) ==
    /\ platforms' = AddPlatform(platforms, platform)
    /\ call' = Some([op |-> "add_platform", platform |-> platform])
    /\ RunIdle /\ UNCHANGED << list_vars, init_vars >>
CallRemovePlatform(platform) ==
    /\ platforms' = RemovePlatform(platforms, platform)
    /\ call' = Some([op |-> "remove_platform", platform |-> platform])
    /\ RunIdle /\ UNCHANGED << list_vars, init_vars >>

NextConfig ==
    \/ \E platform \in Platform : CallAddPlatform(platform)
    \/ \E platform \in Platform : CallRemovePlatform(platform)
SpecConfig == InitConfig /\ [][NextConfig]_vars

(***************************************************************************)
(* commands/init.rs: `init --add-platform` and `init --remove-platform`    *)
(* on a project directory: .rnr/config.yaml and the files of .rnr/bin.     *)
(***************************************************************************)
\* The most platforms named by `init --platforms`.
MaxSelected == 2
\* select_platforms (69-95): all platforms, or the platforms named on the
\* command line in the order and as often as they are named; run (53-55)
\* refuses an empty selection.
Selections ==
    { ALL_PLATFORMS } \cup (SeqsUpTo(Platform, MaxSelected) \ { << >> })
\* initialize (135-151): a binary per selected platform and the config.
Initialized(selection) ==
    /\ bin = { BinaryName(selection[i]) : i \in 1..Len(selection) }
    /\ config_yaml = Some(New(selection))

\* The results of a command.
Failed(why) == [ok |-> FALSE, why |-> why]
Succeeded(what) == [ok |-> TRUE, what |-> what]
Ran(flag, id, res) == Some([flag |-> flag, id |-> id, res |-> res])
\* is_initialized (rnr_config.rs 116-119).
IsInitialized == config_yaml # None
\* A file system operation succeeds or fails.
IoOutcomes == { "ok", "failed" }

\* A project `init` has set up, or a directory where it has not run.
InitInit ==
    /\ NoRun /\ NoListing /\ NoRnrConfig
    /\ \/ \E selection \in Selections : Initialized(selection)
       \/ config_yaml = None /\ bin = {}
    /\ command = None

\* Faulty guard: the last platform may be removed.
NeverLast(list) == FALSE
\* The guard of remove_platform (463).
IsLastPlatform(list) == Len(GetPlatforms(list)) = 1

\* add_platform (388-440).
InitAddPlatform(id) ==
    /\ \E write, save \in IoOutcomes :
          LET platform == Unwrap(FromId(id))
              config == Unwrap(config_yaml)
              binary == BinaryName(platform)
          IN  CASE ~IsInitialized ->
                     /\ command' = Ran("add-platform", id, Failed("not initialized"))
                     /\ UNCHANGED << config_yaml, bin >>
                [] IsInitialized /\ FromId(id) = None ->
                     /\ command' = Ran("add-platform", id, Failed("unknown platform"))
                     /\ UNCHANGED << config_yaml, bin >>
                [] IsInitialized /\ FromId(id) # None /\ HasPlatform(config, platform) ->
                     /\ command' = Ran("add-platform", id, Succeeded("already configured"))
                     /\ UNCHANGED << config_yaml, bin >>
                [] OTHER ->
                     IF write = "failed"
                     THEN /\ command' = Ran("add-platform", id, Failed("write binary"))
                          /\ UNCHANGED << config_yaml, bin >>
                     ELSE IF save = "failed"
                     THEN /\ command' = Ran("add-platform", id, Failed("save config"))
                          /\ bin' = bin \cup { binary }
                          /\ UNCHANGED config_yaml
                     ELSE /\ command' = Ran("add-platform", id, Succeeded("added"))
                          /\ bin' = bin \cup { binary }
                          /\ config_yaml' = Some(AddPlatform(config, platform))
    /\ RunIdle /\ UNCHANGED << list_vars, config_vars >>

\* remove_platform (443-486).
InitRemovePlatform(id) ==
    /\ \E remove, save \in IoOutcomes :
          LET platform == Unwrap(FromId(id))
              config == Unwrap(config_yaml)
              binary == BinaryName(platform)
          IN  CASE ~IsInitialized ->
                     /\ command' = Ran("remove-platform", id, Failed("not initialized"))
                     /\ UNCHANGED << config_yaml, bin >>
                [] IsInitialized /\ FromId(id) = None ->
                     /\ command' = Ran("remove-platform", id, Failed("unknown platform"))
                     /\ UNCHANGED << config_yaml, bin >>
                [] IsInitialized /\ FromId(id) # None /\ ~HasPlatform(config, platform) ->
                     /\ command' = Ran("remove-platform", id, Succeeded("not configured"))
                     /\ UNCHANGED << config_yaml, bin >>
                [] OTHER ->
                     IF IsLastPlatform(config)
                     THEN /\ command' = Ran("remove-platform", id, Failed("last platform"))
                          /\ UNCHANGED << config_yaml, bin >>
                     ELSE IF binary \in bin /\ remove = "failed"
                     THEN /\ command' = Ran("remove-platform", id, Failed("remove binary"))
                          /\ UNCHANGED << config_yaml, bin >>
                     ELSE IF save = "failed"
                     THEN /\ command' = Ran("remove-platform", id, Failed("save config"))
                          /\ bin' = bin \ { binary }
                          /\ UNCHANGED config_yaml
                     ELSE /\ command' = Ran("remove-platform", id, Succeeded("removed"))
                          /\ bin' = bin \ { binary }
                          /\ config_yaml' = Some(RemovePlatform(config, platform))
    /\ RunIdle /\ UNCHANGED << list_vars, config_vars >>

NextInit ==
    \/ \E id \in Ids : InitAddPlatform(id)
    \/ \E id \in Ids : InitRemovePlatform(id)
SpecInit == InitInit /\ [][NextInit]_vars

(***************************************************************************)
(* Properties.                                                             *)
(***************************************************************************)
Last(p) == p[Len(p)]
\* Position p lies, at the first place where the two differ, at an earlier
\* index of the same step list than position q.
SeqBefore(p, q) ==
    \E k \in 1..Len(p) :
        /\ k <= Len(q)
        /\ SubSeq(p, 1, k - 1) = SubSeq(q, 1, k - 1)
        /\ p[k][1] = "s" /\ q[k][1] = "s"
        /\ p[k][2] < q[k][2]
\* The siblings of the Parallel group at position p that have returned.
SiblingsOf(p) ==
    { e \in finished : Len(e.path) = Len(p) + 1 /\ Pop(e.path) = p
                          /\ Last(e.path)[1] = "p" }
Count(seq, v) == Cardinality({ i \in 1..Len(seq) : seq[i] = v })

\* C1: no command of a later position of a step list is started while a
\* command of an earlier position (a sibling of an earlier Parallel group
\* included) has not finished: whenever both are present, the earlier one
\* is no longer running.
C1_SequentialOrder ==
    \A x \in invocations : \A y \in invocations :
        SeqBefore(x.path, y.path) => x.status # "running"
\* A command of position 3 runs after two siblings of the Parallel group at
\* position 2 ran.
C1_Witness ==
    /\ \E y \in invocations : y.path = << << "s", 3 >> >>
    /\ \E x \in invocations : x.path = << << "s", 2 >>, << "p", 1 >> >>
    /\ \E x \in invocations : x.path = << << "s", 2 >>, << "p", 2 >> >>

\* C2: once an entry of a step list has returned an error, no later entry of
\* that list is started and no command of a later position runs, and the
\* error is the result of the enclosing call: of run_task for the list of
\* the main thread, of the Parallel sibling for a list run by a worker.
C2_FailFast ==
    \A e \in finished :
        (~e.res.ok /\ Last(e.path)[1] = "s") =>
            /\ \A q \in started : ~SeqBefore(e.path, q.path)
            /\ \A i \in invocations : ~SeqBefore(e.path, i.path)
            /\ (Len(e.path) = 1 /\ Done) => Ctl(Main).res = e.res
            /\ \A o \in finished : o.path = Pop(e.path) => o.res = e.res
\* The run ended with the failure of the Parallel group at position 2 of 3.
C2_Witness ==
    /\ Done
    /\ \E e \in finished :
          /\ e.path = << << "s", 2 >> >>
          /\ ~e.res.ok
          /\ e.step.kind = "Parallel"
          /\ Len(fs[ConfigPath(ProjectRoot)].tasks["main"].steps[1]) = 3

\* C3: when a Parallel group has returned, every one of its siblings was
\* started and has returned, whatever the results of the others, and the
\* command of every sibling that runs one was started and is not running.
C3_AllSiblingsRun ==
    \A e \in finished :
        e.step.kind = "Parallel" =>
            \A j \in 1..Len(e.step.parallel) :
                LET w == Append(e.path, << "p", j >>)
                    sd == e.step.parallel[j]
                IN  /\ \E b \in started : b.path = w /\ b.step = Simple(sd)
                    /\ \E d \in finished : d.path = w
                    /\ StepAction(sd) = "cmd" =>
                          \E i \in invocations :
                              /\ i.path = w
                              /\ i.cmd = Unwrap(sd.cmd)
                              /\ i.status # "running"
\* A group of three returned with one sibling failed and two succeeded.
C3_Witness ==
    \E e \in finished :
        /\ e.step.kind = "Parallel"
        /\ Len(e.step.parallel) = 3
        /\ Cardinality({ d \in SiblingsOf(e.path) : ~d.res.ok }) = 1
        /\ Cardinality({ d \in SiblingsOf(e.path) : d.res.ok }) = 2

\* C4: a Parallel group returns Ok exactly when no sibling returned an
\* error; otherwise it returns a ParallelFailure whose list holds one entry
\* for every failed sibling and no other (as many entries of each error as
\* siblings that failed with it).
C4_Aggregate ==
    \A e \in finished :
        e.step.kind = "Parallel" =>
            LET failed == { d \in SiblingsOf(e.path) : ~d.res.ok }
            IN  /\ e.res.ok <=> failed = {}
                /\ ~e.res.ok =>
                      /\ e.res.err.kind = "ParallelFailure"
                      /\ e.res.err.count = Cardinality(failed)
                      /\ Len(e.res.err.messages) = Cardinality(failed)
                      /\ \A d \in failed :
                            Count(e.res.err.messages, d.res.err) =
                                Cardinality({ x \in failed : x.res.err = d.res.err })
\* A group returned a failure with two entries while a third sibling
\* succeeded.
C4_Witness ==
    \E e \in finished :
        /\ e.step.kind = "Parallel"
        /\ ~e.res.ok
        /\ Len(e.res.err.messages) = 2
        /\ \E d \in SiblingsOf(e.path) : d.res.ok

\* The task `main` of the top-level document.
MainTask == fs[ConfigPath(ProjectRoot)].tasks["main"]
OnlyCmd(task) == IsSome(task.cmd) /\ ~IsSome(task.task) /\ ~IsSome(task.steps)
Bare(task) == ~IsSome(task.cmd) /\ ~IsSome(task.task) /\ ~IsSome(task.steps)

\* C5: a Full task with `steps` runs only its steps: every command of the
\* run comes from a step position, and neither its `cmd` nor its `task`
\* target is run; without `steps` but with `task` it delegates and its `cmd`
\* is never run; with `cmd` only it runs exactly that command.  A Simple
\* step with `task` never runs a command of its own.
C5_Precedence ==
    /\ (requested = "main" /\ IsSome(MainTask.steps)) =>
          /\ \A i \in invocations :
                /\ i.path # << >>
                /\ i.cmd \notin { MainCmd, "echo full", "echo nested full" }
          /\ Stack(Main) # << >> => Stack(Main)[1].k = "steps"
    /\ (requested = "main" /\ ~IsSome(MainTask.steps) /\ IsSome(MainTask.task)) =>
          /\ \A i \in invocations : i.cmd # MainCmd /\ i.by # "step"
          /\ Stack(Main) # << >> =>
                /\ Stack(Main)[1].k = "deleg"
                /\ Stack(Main)[1].target = Unwrap(MainTask.task)
    /\ (requested = "main" /\ OnlyCmd(MainTask)) =>
          /\ \A i \in invocations : i.cmd = MainCmd /\ i.by = "task"
          /\ Done => Cardinality(invocations) = 1
          /\ Stack(Main) = << >>
    /\ \A b \in started :
          (b.step.kind = "Simple" /\ IsSome(b.step.def.task)) =>
              \A i \in invocations :
                  i.path = b.path =>
                      /\ i.by # "step"
                      /\ IsSome(b.step.def.cmd) => i.cmd # Unwrap(b.step.def.cmd)
\* A task with steps, task and cmd all set ran a step that has both a task
\* and a cmd, and the run went on.
C5_Witness ==
    /\ requested = "main"
    /\ IsSome(MainTask.steps) /\ IsSome(MainTask.task) /\ IsSome(MainTask.cmd)
    /\ \E e \in finished :
          /\ e.res.ok
          /\ e.step.kind = "Simple"
          /\ IsSome(e.step.def.task) /\ IsSome(e.step.def.cmd)
    /\ \E i \in invocations : i.by = "shorthand"

\* C6: the step that executes a Full task without cmd, task and steps, or a
\* Simple step without cmd and task, returns the NoAction error and starts
\* no command.
C6_NoActionFails ==
    [][\A t \in DOMAIN threads :
          LET c == threads[t].ctl
          IN  \/ (c.op = "full_task" /\ Bare(c.task))
              \/ (c.op = "step_def" /\ ~IsSome(c.sd.cmd) /\ ~IsSome(c.sd.task))
              => /\ t \in DOMAIN threads'
                 /\ \/ threads'[t].ctl = c
                    \/ /\ threads'[t].ctl =
                            Return(Err(NoAction(IF c.op = "full_task"
                                                THEN "task" ELSE "step")))
                       /\ invocations' = invocations]_vars
\* The run of a task without any action ended with NoAction and no command.
C6_Witness ==
    /\ requested = "main"
    /\ Bare(MainTask)
    /\ Done
    /\ Ctl(Main).res = Err(NoAction("task"))
    /\ invocations = {}

\* The directory and environment of the context a task was called in: those
\* of the delegating task or step, or the project root and no added variable
\* at top level.
ContextDir(t) == IF Stack(t) = << >> THEN ProjectRoot ELSE Top(Stack(t)).work_dir
ContextEnv(t) == IF Stack(t) = << >> THEN EmptyEnv ELSE Top(Stack(t)).env

\* C7: a Shorthand task starts exactly one command, in the directory and
\* with the environment of the context it was called in.
C7_ShorthandContext ==
    \A t \in DOMAIN threads :
        (Ctl(t).op \in {"command", "running"} /\ Ctl(t).by = "shorthand") =>
            /\ Ctl(t).dir = ContextDir(t)
            /\ Overlay(HostEnv, Ctl(t).env) = Overlay(HostEnv, ContextEnv(t))
            /\ Cardinality({ i \in invocations : i.path = PathOf(t) }) =
                  IF Ctl(t).op = "running" THEN 1 ELSE 0

\* C8: the command of a Full task with only `cmd` runs in the document root
\* joined with `dir` when `dir` is set and else in the directory of the
\* calling context, with the context's environment overlaid with the task's
\* `env`.
C8_FullCmdContext ==
    [][\A t \in DOMAIN threads :
          LET c == threads[t].ctl
          IN  (/\ c.op = "full_task"
               /\ OnlyCmd(c.task)
               /\ t \in DOMAIN threads'
               /\ threads'[t].ctl.op = "command")
              => /\ threads'[t].ctl.dir =
                        IF IsSome(c.task.dir)
                        THEN Join(c.root, Unwrap(c.task.dir))
                        ELSE ContextDir(t)
                 /\ Overlay(HostEnv, threads'[t].ctl.env) =
                        Overlay(Overlay(HostEnv, ContextEnv(t)), TaskEnv(c.task))]_vars

\* The call made on behalf of the delegation frame k of thread t: the next
\* frame, or the thread's control state when k is the top frame.
Callee(t, k) == IF k < Len(Stack(t)) THEN Stack(t)[k + 1] ELSE Ctl(t)
HasRoot(x) == "root" \in DOMAIN x

\* C9: while a Full task with `dir` and `task` delegates and a document
\* exists at documentRoot/dir, the target is the nested document's
\* definition of the name, and it runs with the nested document as its
\* document and documentRoot/dir as its root and working directory.
C9_NestedDelegation ==
    \A t \in DOMAIN threads : \A k \in 1..Len(Stack(t)) :
        LET f == Stack(t)[k]
            x == Callee(t, k)
        IN  (/\ f.k = "deleg" /\ f.by = "task" /\ IsSome(f.dir)
             /\ Exists(ConfigPath(Join(f.root, Unwrap(f.dir)))))
            => LET sub == Join(f.root, Unwrap(f.dir))
               IN  /\ f.nested
                   /\ f.work_dir = sub
                   /\ f.target \in DOMAIN fs[ConfigPath(sub)].tasks
                   /\ HasRoot(x) => x.root = sub /\ x.doc = ConfigPath(sub)
                   /\ ("op" \in DOMAIN x /\ x.op = "task_def") =>
                         x.def = fs[ConfigPath(sub)].tasks[f.target]
                   /\ ("op" \in DOMAIN x /\ x.op \in {"command", "running"}
                          /\ x.by = "shorthand") =>
                         /\ x.dir = sub
                         /\ x.cmd = fs[ConfigPath(sub)].tasks[f.target].cmd
\* The command of a Shorthand task of the nested document is running,
\* reached from a Full task with dir and task.
C9_Witness ==
    /\ Stack(Main) # << >>
    /\ Top(Stack(Main)).k = "deleg"
    /\ Top(Stack(Main)).by = "task"
    /\ Top(Stack(Main)).nested
    /\ Ctl(Main).op = "running"
    /\ Ctl(Main).cmd = "echo nested sh"
    /\ Ctl(Main).dir = Sub

\* C10: when a Full task delegates within the same document, the target is
\* that document's definition and keeps the document and its root, and the
\* target's command runs in the delegating task's computed directory (or in
\* root/dir of its own `dir`) with the delegating task's environment
\* overlaid with its own.
C10_SameDocDelegation ==
    [][\A t \in DOMAIN threads :
          LET c == threads[t].ctl
              f == Top(Stack(t))
          IN  (/\ Stack(t) # << >>
               /\ f.k = "deleg" /\ f.by = "task" /\ ~f.nested
               /\ c.op \in {"task_def", "full_task"}
               /\ t \in DOMAIN threads')
              => /\ c.root = f.root /\ c.doc = f.doc
                 /\ threads'[t].ctl.op = "command" =>
                       /\ threads'[t].ctl.dir =
                             IF c.op = "full_task" /\ IsSome(c.task.dir)
                             THEN Join(f.root, Unwrap(c.task.dir))
                             ELSE f.work_dir
                       /\ Overlay(HostEnv, threads'[t].ctl.env) =
                             Overlay(Overlay(HostEnv, f.env),
                                     IF c.op = "full_task"
                                     THEN TaskEnv(c.task) ELSE EmptyEnv)]_vars

\* The environment a command of the callee of delegation frame f gets when
\* the environment of f is inherited: the host's, overlaid with the
\* delegating task's, overlaid with the callee's own when it is a Full task.
InheritedEnv(f, c) ==
    Overlay(Overlay(HostEnv, f.env),
            IF c.op = "full_task" THEN TaskEnv(c.task) ELSE EmptyEnv)

\* C11: the command of a task reached by delegation into a nested document
\* gets the delegating task's environment (overlaid with the task's own),
\* not a fresh one.
C11_NestedKeepsEnv ==
    [][\A t \in DOMAIN threads :
          LET c == threads[t].ctl
              f == Top(Stack(t))
          IN  (/\ Stack(t) # << >>
               /\ f.k = "deleg" /\ f.by = "task" /\ f.nested
               /\ c.op \in {"task_def", "full_task"}
               /\ t \in DOMAIN threads'
               /\ threads'[t].ctl.op = "command")
              => Overlay(HostEnv, threads'[t].ctl.env) = InheritedEnv(f, c)]_vars

\* The directory of the document a config path names.
DocDir(doc) == Pop(doc)

\* C12: a Simple step with `task` and `dir` uses the document at its
\* directory when one exists there, with that directory as root; otherwise
\* the target is the current document's definition, and its command runs in
\* the step's computed directory (when the target sets none) with the
\* enclosing task's environment overlaid with its own.
C12_StepDelegation ==
    [][\A t \in DOMAIN threads :
          LET c == threads[t].ctl
              f == Top(Stack(t))
          IN  (/\ Stack(t) # << >>
               /\ f.k = "deleg" /\ f.by = "step"
               /\ c.op \in {"task_def", "full_task"}
               /\ t \in DOMAIN threads')
              => /\ f.nested <=> (IsSome(f.dir) /\ Exists(ConfigPath(f.work_dir)))
                 /\ f.nested => c.root = f.work_dir /\ c.doc = ConfigPath(f.work_dir)
                 /\ ~f.nested => c.doc = f.doc
                 /\ (~f.nested /\ threads'[t].ctl.op = "command") =>
                       /\ (c.op = "task_def" \/ ~IsSome(c.task.dir)) =>
                             threads'[t].ctl.dir = f.work_dir
                       /\ Overlay(HostEnv, threads'[t].ctl.env) = InheritedEnv(f, c)]_vars

\* C13: the command of a step with `dir` runs in that directory joined to
\* the root of the document that defines the step, whatever the enclosing
\* task's directory is; the command of a step without `dir` runs in the
\* enclosing task's directory.
C13_DirAgainstDocumentRoot ==
    [][\A t \in DOMAIN threads :
          LET c == threads[t].ctl
          IN  (/\ c.op = "step_def"
               /\ t \in DOMAIN threads'
               /\ threads'[t].ctl.op = "command")
              => threads'[t].ctl.dir =
                    IF IsSome(c.sd.dir)
                    THEN Join(DocDir(c.doc), Unwrap(c.sd.dir))
                    ELSE c.dir]_vars

\* The document a delegation with optional `dir` looks its target up in:
\* the one at work_dir when `dir` is set and a file exists there (None when
\* it is the current document).
ScopedNested(dir, work_dir) ==
    IF IsSome(dir) /\ Exists(ConfigPath(work_dir))
    THEN Some(ConfigPath(work_dir)) ELSE None
Defines(doc, name) == name \in DOMAIN fs[doc].tasks
\* The lookup a thread at control state c is about to make: the name and the
\* nested document in scope, or None when c makes no lookup.
Lookup(c) ==
    CASE c.op = "run_task" -> Some([name |-> c.name, nested |-> None, cur |-> ConfigPath(ProjectRoot)])
      [] c.op = "full_task" /\ FullTaskAction(c.task) = "task" ->
            Some([name |-> Unwrap(c.task.task),
                  nested |-> ScopedNested(c.task.dir, TaskWorkDir(c.task, c.root)),
                  cur |-> c.doc])
      [] c.op = "step_def" /\ StepAction(c.sd) = "task" ->
            Some([name |-> Unwrap(c.sd.task),
                  nested |-> ScopedNested(c.sd.dir, StepWorkDir(c.sd, c.dir)),
                  cur |-> c.doc])
      [] OTHER -> None

\* C14: a lookup (of the requested task, or of a delegation target) of a
\* name the document in scope lacks returns TaskNotFound for that name and
\* invokes no command; when the document in scope is a nested one the error
\* names it and the current document is not consulted.
C14_TaskNotFound ==
    [][\A t \in DOMAIN threads :
          LET c == threads[t].ctl
              l == Unwrap(Lookup(c))
              scoped == IF IsSome(l.nested) THEN Unwrap(l.nested) ELSE l.cur
          IN  (/\ Lookup(c) # None
               /\ t \in DOMAIN threads'
               /\ threads'[t].ctl # c
               /\ fs[scoped].state = "ok"
               /\ ~Defines(scoped, l.name))
              => /\ threads'[t].ctl = Return(Err(TaskNotFound(l.name, l.nested)))
                 /\ invocations' = invocations]_vars

\* A run whose delegation into sub/rnr.yaml names a task only the top-level
\* document defines: it ended with TaskNotFound naming sub/rnr.yaml and no
\* command was invoked.
C14_Witness ==
    /\ Done
    /\ Defines(ConfigPath(ProjectRoot), "none")
    /\ Ctl(Main).res = Err(TaskNotFound("none", Some(ConfigPath(Sub))))
    /\ invocations = {}

\* The result the invoker owes for a child that exited with `status`
\* (Some(code), or None for a child that ended without an exit code).
Owed(status) ==
    CASE status = Some(0) -> Ok
      [] status = None -> Err(CommandFailed(1))
      [] OTHER -> Err(CommandFailed(Unwrap(status)))

\* C15: execute_command returns success for exit code 0, CommandFailed(c)
\* for a non-zero exit code c, CommandFailed(1) for a child that ended
\* without an exit code, and SpawnFailed when the child could not be started.
C15_InvokerResult ==
    [][\A t \in DOMAIN threads :
          LET c == threads[t].ctl
              new == { i \in invocations' \ invocations : i.path = PathOf(t) }
          IN  /\ (c.op = "running" /\ threads'[t].ctl # c)
                 => \E i \in new :
                       /\ i.status = "exited" /\ IsSome(i.exit)
                       /\ threads'[t].ctl = Return(Owed(Unwrap(i.exit)))
              /\ (c.op = "command" /\ threads'[t].ctl # c)
                 => \E i \in new :
                       \/ i.status = "running" /\ threads'[t].ctl.op = "running"
                       \/ /\ i.status = "spawn_failed"
                          /\ threads'[t].ctl = Return(Err(SpawnFailed(c.cmd)))]_vars

\* A run of a single command whose child ended without an exit code: the
\* run failed with CommandFailed(1).
C15_Witness ==
    /\ Done
    /\ Ctl(Main).res = Err(CommandFailed(1))
    /\ \E i \in invocations : i.status = "exited" /\ i.exit = Some(None)

\* What an error lets its reader identify: the fields of its message.
Carries(e, field) == field \in DOMAIN e

\* C16: every error of a failed command carries the command line and the
\* exit code, and every entry of a Parallel group's aggregate failure carries
\* the command line or the task name of the step that failed.
C16_ErrorsIdentifyCommand ==
    \A t \in DOMAIN threads :
        (Ctl(t).op = "ret" /\ ~Ctl(t).res.ok) =>
            LET e == Ctl(t).res.err
            IN  /\ e.kind = "CommandFailed" =>
                      /\ Carries(e, "code")
                      /\ Carries(e, "cmd")
                      /\ \E i \in invocations : i.cmd = e.cmd /\ i.exit = Some(Some(e.code))
                /\ e.kind = "ParallelFailure" =>
                      \A k \in 1..Len(e.messages) :
                          Carries(e.messages[k], "cmd") \/ Carries(e.messages[k], "name")

\* The siblings of the group coordinated by t that have returned an error,
\* as indices into the group's list, and the error of sibling j.
FailedSiblings(t) ==
    { j \in 1..Len(Top(Stack(t)).steps) :
        \E r \in finished : r.path = Append(PathOf(t), << "p", j >>) /\ ~r.res.ok }
SiblingFailedWith(t, j, e) ==
    \E r \in finished : r.path = Append(PathOf(t), << "p", j >>) /\ r.res = Err(e)
\* msgs lists errors of siblings of t's group in the order of the list.
InListOrder(msgs, t) ==
    \E g \in [1..Len(msgs) -> 1..Len(Top(Stack(t)).steps)] :
        /\ \A a, b \in 1..Len(msgs) : a < b => g[a] < g[b]
        /\ \A k \in 1..Len(msgs) : SiblingFailedWith(t, g[k], msgs[k])

\* C17 (as stated): the aggregate failure execute_parallel returns lists the
\* siblings' errors in the order of the steps in the list.
C17_ListOrder ==
    [][\A t \in DOMAIN threads :
          (/\ Ctl(t).op = "scope"
           /\ t \in DOMAIN threads'
           /\ threads'[t].ctl.op = "ret"
           /\ ~threads'[t].ctl.res.ok)
          => InListOrder(threads'[t].ctl.res.err.messages, t)]_vars

\* C17 (amended): the aggregate lists the error of every failed sibling
\* exactly once, in the order the errors were recorded: the vector of
\* recorded errors only grows at its end, by the error of a sibling that has
\* returned it, and the aggregate is that vector.
C17_CompletionOrder ==
    [][\A t \in DOMAIN threads :
          LET f == Top(Stack(t))
          IN  (Ctl(t).op = "scope" /\ t \in DOMAIN threads') =>
                 IF threads'[t].ctl.op = "scope"
                 THEN LET g == Top(threads'[t].stack)
                      IN  \/ g.errors = f.errors
                          \/ /\ Len(g.errors) = Len(f.errors) + 1
                             /\ SubSeq(g.errors, 1, Len(f.errors)) = f.errors
                             /\ \E j \in FailedSiblings(t) :
                                   SiblingFailedWith(t, j, g.errors[Len(g.errors)])
                 ELSE /\ threads'[t].ctl.res.ok <=> FailedSiblings(t) = {}
                      /\ ~threads'[t].ctl.res.ok =>
                            LET msgs == threads'[t].ctl.res.err.messages
                            IN  /\ msgs = f.errors
                                /\ threads'[t].ctl.res.err.count = Cardinality(FailedSiblings(t))
                                /\ \E h \in [1..Len(msgs) -> FailedSiblings(t)] :
                                      /\ \A a, b \in 1..Len(msgs) : a # b => h[a] # h[b]
                                      /\ \A k \in 1..Len(msgs) :
                                            SiblingFailedWith(t, h[k], msgs[k])]_vars

\* A run whose group failed in its first and its third sibling, the third
\* recorded first: the aggregate lists them in that order.
C17_Witness ==
    /\ Done
    /\ ~Ctl(Main).res.ok
    /\ Ctl(Main).res.err.kind = "ParallelFailure"
    /\ Ctl(Main).res.err.count >= 2
    /\ Ctl(Main).res.err.messages[1] = TaskNotFound("missing", None)
    /\ Ctl(Main).res.err.messages[Ctl(Main).res.err.count] = NoAction("step")

\* The siblings of the group coordinated by t whose command is running.
RunningSiblings(t) ==
    { j \in 1..Len(Top(Stack(t)).steps) :
        \E i \in invocations :
            i.path = Append(PathOf(t), << "p", j >>) /\ i.status = "running" }

\* C18: while a step of a Parallel group is left to start, the coordinator
\* can start it, whatever the workers already started are doing; and no
\* worker is joined before the last one is started.
C18_FanOut ==
    \A t \in DOMAIN threads :
        Ctl(t).op = "scope" =>
            /\ Top(Stack(t)).spawned < Len(Top(Stack(t)).steps) =>
                  ENABLED Spawn(t) /\ ~ENABLED ParallelJoin(t)
            /\ Cardinality(Workers(t)) = Top(Stack(t)).spawned

\* A group of MaxPar steps with the commands of all of them running at once.
C18_Witness ==
    \E t \in DOMAIN threads :
        /\ Ctl(t).op = "scope"
        /\ Len(Top(Stack(t)).steps) = MaxPar
        /\ RunningSiblings(t) = 1..MaxPar

\* Position p is the position of q or of an entry that encloses q.
Encloses(p, q) == Len(p) <= Len(q) /\ SubSeq(q, 1, Len(p)) = p
FailedInvocation(i) ==
    \/ i.status = "spawn_failed"
    \/ i.status = "exited" /\ i.exit # Some(Some(0))

\* C19: a command occurrence is invoked at most once in a run, and a failure
\* is never turned into success: an entry that encloses a failed entry or a
\* failed invocation has failed when it has returned, and so has the run.
C19_NoRetryNoRecovery ==
    /\ \A i, j \in invocations : i.path = j.path => i = j
    /\ \A r, q \in finished : (~r.res.ok /\ Encloses(q.path, r.path)) => ~q.res.ok
    /\ \A i \in invocations : \A q \in finished :
          (FailedInvocation(i) /\ Encloses(q.path, i.path)) => ~q.res.ok
    /\ Done =>
          /\ (\E r \in finished : ~r.res.ok) => ~Ctl(Main).res.ok
          /\ (\E i \in invocations : FailedInvocation(i)) => ~Ctl(Main).res.ok

\* A run whose step delegated to a Shorthand task whose command exited with
\* a non-zero code: that code is the run's error, through the delegation and
\* the step list, and the command was invoked once.
C19_Witness ==
    /\ Done
    /\ \E i \in invocations :
          /\ i.by = "shorthand" /\ i.path # << >>
          /\ i.exit = Some(Some(MaxExitCode))
          /\ Ctl(Main).res = Err(CommandFailed(MaxExitCode))
          /\ \E r \in finished : r.path = i.path /\ r.res = Err(CommandFailed(MaxExitCode))

\* C20: no step of a run changes a task document: the files, their task
\* names and every task definition stay what was loaded.
C20_GraphReadOnly ==
    [][/\ DOMAIN fs' = DOMAIN fs
       /\ \A p \in DOMAIN fs :
             /\ fs'[p].state = fs[p].state
             /\ fs[p].state = "ok" =>
                   /\ DOMAIN fs'[p].tasks = DOMAIN fs[p].tasks
                   /\ \A n \in DOMAIN fs[p].tasks : fs'[p].tasks[n] = fs[p].tasks[n]]_vars

\* The end of a failed run of `main` whose Parallel group ran its workers to
\* the end: the document still defines `main` with its step list.
C20_Witness ==
    /\ Done
    /\ \E r \in finished :
          /\ r.step.kind = "Parallel" /\ ~r.res.ok
          /\ IsSome(fs[ConfigPath(ProjectRoot)].tasks["main"].steps)
          /\ r.step \in { Unwrap(fs[ConfigPath(ProjectRoot)].tasks["main"].steps)[k] :
                            k \in 1..Len(Unwrap(fs[ConfigPath(ProjectRoot)].tasks["main"].steps)) }

\* C21: every listing task_names returns holds each task name of the
\* document exactly once, in ascending order of the names (none for an empty
\* document), and all listings of the same document are the same.
C21_TaskNamesSorted ==
    \A k \in 1..Len(listings) :
        LET l == listings[k]
        IN  /\ Len(l) = Cardinality(document)
            /\ \A n \in document : Cardinality({ i \in 1..Len(l) : l[i] = n }) = 1
            /\ \A i, j \in 1..Len(l) : i < j => StrLess(l[i], l[j])
            /\ document = {} => l = << >>
            /\ l = listings[1]

\* Two listings of a document of three names, among them "Z", "ab" and "a".
C21_Witness ==
    /\ document = { << 97, 98 >>, << 90 >>, << 97 >> }
    /\ Len(listings) >= 2
    /\ listings[2] = << << 90 >>, << 97 >>, << 97, 98 >> >>

\* Whether identifier id is an entry of the platforms list.
Configured(list, id) == \E i \in 1..Len(list) : list[i] = id
Entries(list, id) == Cardinality({ i \in 1..Len(list) : list[i] = id })

\* C22: after add_platform(p), has_platform(p) holds; after
\* remove_platform(p) it does not; add_platform of a configured platform
\* leaves the list as it is, and of an unconfigured one adds one entry; no
\* call for p changes whether another identifier is configured.
C22_AddRemovePlatform ==
    [][\A p \in Platform :
          /\ call' = Some([op |-> "add_platform", platform |-> p]) =>
                /\ HasPlatform(platforms', p)
                /\ HasPlatform(platforms, p) => platforms' = platforms
                /\ ~HasPlatform(platforms, p) => Entries(platforms', Id(p)) = 1
          /\ call' = Some([op |-> "remove_platform", platform |-> p]) =>
                ~HasPlatform(platforms', p)
          /\ (call' # << >> /\ Unwrap(call').platform = p) =>
                \A id \in Ids \ { Id(p) } :
                    Configured(platforms', id) <=> Configured(platforms, id)]_vars

\* The state test_add_remove_platform ends in: LinuxAmd64 was removed from a
\* config that also holds MacosArm64.
C22_Witness ==
    /\ call = Some([op |-> "remove_platform", platform |-> "LinuxAmd64"])
    /\ platforms = << "macos-arm64" >>

\* The platforms .rnr/config.yaml configures.
ConfiguredPlatforms(yaml) ==
    { q \in Platform : HasPlatform(Unwrap(yaml), q) }

\* C28: in an initialized project with a configured platform, no
\* --add-platform or --remove-platform command leaves the set of configured
\* platforms empty; removing the only configured platform fails; and a
\* removal that fails for that reason, or names an unconfigured or unknown
\* platform, leaves the config and the binaries as they were.
C28_NeverEmpty ==
    [][(IsInitialized /\ ConfiguredPlatforms(config_yaml) # {} /\ command' # command) =>
          LET c == Unwrap(command')
          IN  /\ ConfiguredPlatforms(config_yaml') # {}
              /\ (/\ c.flag = "remove-platform"
                  /\ ConfiguredPlatforms(config_yaml) = { q \in Platform : Id(q) = c.id })
                 => ~c.res.ok
              /\ (/\ c.flag = "remove-platform"
                  /\ \/ c.res = Failed("last platform")
                     \/ c.res = Failed("unknown platform")
                     \/ c.res = Succeeded("not configured"))
                 => config_yaml' = config_yaml /\ bin' = bin]_vars

\* C23: a Full task whose `steps` is an empty list acts by its `task` when
\* it has one, else by its `cmd` when it has one, and else fails with
\* NoAction.
C23_EmptyStepsIsNoAction ==
    [][\A t \in DOMAIN threads :
          LET c == threads[t].ctl
          IN  (/\ c.op = "full_task"
               /\ c.task.steps = Some(<< >>)
               /\ t \in DOMAIN threads'
               /\ threads'[t].ctl # c)
              => IF IsSome(c.task.task)
                 THEN \/ threads'[t].ctl.op = "task_def"
                      \/ /\ threads'[t].ctl.op = "ret"
                         /\ ~threads'[t].ctl.res.ok
                         /\ threads'[t].ctl.res.err.kind
                               \in {"TaskNotFound", "DocumentLoadFailed"}
                 ELSE IF IsSome(c.task.cmd)
                 THEN /\ threads'[t].ctl.op = "command"
                      /\ threads'[t].ctl.cmd = Unwrap(c.task.cmd)
                 ELSE threads'[t].ctl = Return(Err(NoAction("task")))]_vars

\* C24: a delegation whose directory holds a document that cannot be read
\* or parsed returns the load error of that document and invokes no command,
\* whether or not the current document defines the target.
C24_NestedLoadFailure ==
    [][\A t \in DOMAIN threads :
          LET c == threads[t].ctl
              l == Unwrap(Lookup(c))
          IN  (/\ Lookup(c) # None
               /\ IsSome(l.nested)
               /\ fs[Unwrap(l.nested)].state = "bad"
               /\ t \in DOMAIN threads'
               /\ threads'[t].ctl # c)
              => /\ threads'[t].ctl = Return(Err(DocumentLoadFailed(Unwrap(l.nested))))
                 /\ invocations' = invocations]_vars

\* A run of `main: {dir: sub, task: sh}` with an unreadable sub/rnr.yaml:
\* it failed with the load error and ran nothing, though the top-level
\* document defines `sh`.
C24_Witness ==
    /\ Done
    /\ requested = "main"
    /\ MainTask.task = Some("sh") /\ ~IsSome(MainTask.steps)
    /\ Defines(ConfigPath(ProjectRoot), "sh")
    /\ Ctl(Main).res = Err(DocumentLoadFailed(ConfigPath(Sub)))
    /\ invocations = {}

\* C25: when a Parallel group has returned, every step started below it,
\* at any depth, has returned, no command below it is running and no worker
\* below it is left; and a sibling that failed with the aggregate of an
\* inner group is one entry of the outer aggregate, which has one entry per
\* failed sibling.
C25_TransitiveJoin ==
    \A e \in finished :
        e.step.kind = "Parallel" =>
            /\ \A b \in started :
                  Encloses(e.path, b.path) => \E d \in finished : d.path = b.path
            /\ \A i \in invocations :
                  Encloses(e.path, i.path) => i.status # "running"
            /\ \A w \in DOMAIN threads \ { Main } : ~Encloses(e.path, w)
            /\ \A d \in SiblingsOf(e.path) :
                  (~d.res.ok /\ d.res.err.kind = "ParallelFailure") =>
                      /\ ~e.res.ok
                      /\ Cardinality({ k \in 1..Len(e.res.err.messages) :
                                         e.res.err.messages[k] = d.res.err }) = 1
                      /\ Len(e.res.err.messages) =
                            Cardinality({ x \in SiblingsOf(e.path) : ~x.res.ok })

\* The outer group returned after its first sibling's command failed and
\* its second sibling's inner group failed in both of its steps: two
\* entries, one of them the inner aggregate of two.
C25_Witness ==
    \E e \in finished :
        /\ e.step = Parallel(OuterGroup)
        /\ ~e.res.ok
        /\ e.res.err.count = 2
        /\ \E k \in 1..2 :
              /\ e.res.err.messages[k].kind = "ParallelFailure"
              /\ e.res.err.messages[k].count = 2

\* The task that task `name` of the top-level document hands over to by its
\* `task` field alone (no `steps`, no `dir`), when it defines that task.
TopTasks == fs[ConfigPath(ProjectRoot)].tasks
HandsOver(name) ==
    /\ name \in DOMAIN TopTasks
    /\ TopTasks[name].kind = "Full"
    /\ IsSome(TopTasks[name].task)
    /\ ~IsSome(TopTasks[name].steps)
    /\ ~IsSome(TopTasks[name].dir)
    /\ Unwrap(TopTasks[name].task) \in DOMAIN TopTasks
\* After k more hand-overs from `cur` the chain is back at `start`.
RECURSIVE ReturnsIn(_, _, _)
ReturnsIn(start, cur, k) ==
    /\ k > 0
    /\ HandsOver(cur)
    /\ \/ Unwrap(TopTasks[cur].task) = start
       \/ ReturnsIn(start, Unwrap(TopTasks[cur].task), k - 1)
OnTaskCycle(name) == ReturnsIn(name, name, Cardinality(DOMAIN TopTasks))

\* C27: a run of a task that delegates to itself through `task` fields
\* only never invokes a command and never returns: it is inside one more
\* delegation after every step, as deep as the stack allows.
C27_CycleNeverReturns ==
    OnTaskCycle(requested) =>
        /\ invocations = {}
        /\ DOMAIN threads = { Main }
        /\ Ctl(Main).op \in {"run_task", "task_def", "full_task"}
        /\ \A k \in 1..Len(Stack(Main)) :
              /\ Stack(Main)[k].k = "deleg"
              /\ OnTaskCycle(Stack(Main)[k].target)
        /\ Len(Stack(Main)) < MaxDepth =>
              ENABLED (RunTask(Main) \/ ExecuteTaskDef(Main) \/ ExecuteFullTask(Main))

\* The run of `ping`, which delegates to `pong`, which delegates to `ping`:
\* the stack is full of delegations and `ping` has been entered again.
C27_Witness ==
    /\ requested = "ping"
    /\ Len(Stack(Main)) = MaxDepth
    /\ Stack(Main)[1].target = "pong"
    /\ Stack(Main)[2].target = "ping"
    /\ Stack(Main)[3].target = "pong"

\* The delegation graph: a node is a task of a document with the root it
\* runs with; its successors are the tasks its `task` field or the steps of
\* its `steps` delegate to.
Node(doc, root, name) == [doc |-> doc, root |-> root, name |-> name]
DefOf(n) == fs[n.doc].tasks[n.name]
StepDefsOf(steps) ==
    UNION { IF steps[k].kind = "Simple" THEN { steps[k].def }
            ELSE { steps[k].parallel[j] : j \in 1..Len(steps[k].parallel) } :
            k \in 1..Len(steps) }
Target(dir, work_dir, name, same_root, doc) ==
    LET r == Resolve(dir, work_dir, name, same_root, doc)
    IN  IF r.ok THEN { Node(r.doc, r.root, name) } ELSE {}
Succ(n) ==
    LET def == DefOf(n)
        work_dir == TaskWorkDir(def, n.root)
    IN  IF def.kind = "Shorthand" THEN {}
        ELSE IF IsSome(def.steps)
        THEN UNION { Target(sd.dir, StepWorkDir(sd, work_dir), Unwrap(sd.task),
                            ProjectRoot, n.doc) :
                     sd \in { x \in StepDefsOf(Unwrap(def.steps)) : IsSome(x.task) } }
        ELSE IF IsSome(def.task)
        THEN Target(def.dir, work_dir, Unwrap(def.task), n.root, n.doc)
        ELSE {}
RECURSIVE Closure(_)
Closure(nodes) ==
    LET more == nodes \cup UNION { Succ(n) : n \in nodes }
    IN  IF more = nodes THEN nodes ELSE Closure(more)
Requested ==
    IF requested \in DOMAIN TopTasks
    THEN { Node(ConfigPath(ProjectRoot), ProjectRoot, requested) } ELSE {}
\* No task reachable from the requested one delegates back to itself.
NoSelfDelegation ==
    \A n \in Closure(Requested) : n \notin Closure(Succ(n))

\* C26: when no task reachable from the requested task delegates back to
\* itself, and every command that is started exits, run_task returns.
C26_Terminates == NoSelfDelegation ~> Done

\* A run that crossed into sub/rnr.yaml by a step, ran the steps of the task
\* found there and returned.
C26_Witness ==
    /\ Done
    /\ NoSelfDelegation
    /\ Cardinality(Closure(Requested)) = 2
    /\ \E i \in invocations : i.cmd = "echo nested d" /\ i.status = "exited"

=============================================================================
